---- MODULE Spec2Model ----
(***************************************************************************)
(* album-log: a listening log (date markers followed by album entries) is  *)
(* classified line by line, folded into a per-date log, aggregated into    *)
(* album and artist totals, ranked and printed (src/src/main.rs).          *)
(*                                                                         *)
(* A string is a sequence of characters; a character is a one-element      *)
(* name.  ARROW and DASH stand for the two non-ASCII glyphs of the source. *)
(***************************************************************************)
EXTENDS Integers, Sequences, FiniteSets

VARIABLES pc, line, parsed, fed, entries, current, album_freq, ranked_entries,
          artist_counter, ranked_artists, out, freq_in, top

vars == <<pc, line, parsed, fed, entries, current, album_freq, ranked_entries,
          artist_counter, ranked_artists, out, freq_in, top>>

----------------------------------------------------------------------------
(* Characters and strings *)

ARROW == "ARROW"

DASH == "DASH"

ENTRY_SEPARATOR == DASH

ARTIST_JOINER == "/"

TOP_ALBUMS == 20

TOP_ARTISTS == 10

\* u32::MAX, digit by digit
U32MaxDigits == <<4, 2, 9, 4, 9, 6, 7, 2, 9, 5>>

\* Unicode code points: String's Ord compares UTF-8 bytes, which orders
\* strings by code point.
CharCode ==
  [c \in {" ", "(", ")", "/", "0", "2", "W", "X", "Y", "Z",
          "a", "b", "c", "d", "e", "f", "g", "h", "i", "j", "k", "l", "x",
          DASH, ARROW} |->
     CASE c = " " -> 32 [] c = "(" -> 40 [] c = ")" -> 41 [] c = "/" -> 47
       [] c = "0" -> 48 [] c = "2" -> 50
       [] c = "W" -> 87 [] c = "X" -> 88 [] c = "Y" -> 89 [] c = "Z" -> 90
       [] c = "a" -> 97 [] c = "b" -> 98 [] c = "c" -> 99 [] c = "d" -> 100
       [] c = "e" -> 101 [] c = "f" -> 102 [] c = "g" -> 103 [] c = "h" -> 104
       [] c = "i" -> 105 [] c = "j" -> 106 [] c = "k" -> 107 [] c = "l" -> 108
       [] c = "x" -> 120
       [] c = DASH -> 8211 [] c = ARROW -> 8594]

IsSpace(c) == c = " "

IsDigit(c) == c \in {"0", "2"}

DigitValue(c) == IF c = "0" THEN 0 ELSE 2

Sub(s, i, j) == [n \in 1..(j - i + 1) |-> s[i + n - 1]]

AllSpace(s, i, j) == \A n \in i..j : IsSpace(s[n])

AllDigits(s, i, j) == \A n \in i..j : IsDigit(s[n])

\* str::trim
RECURSIVE TrimStart(_)
TrimStart(s) ==
  IF s # <<>> /\ IsSpace(Head(s)) THEN TrimStart(Tail(s)) ELSE s

RECURSIVE TrimEnd(_)
TrimEnd(s) ==
  IF s # <<>> /\ IsSpace(s[Len(s)]) THEN TrimEnd(Sub(s, 1, Len(s) - 1)) ELSE s

Trim(s) == TrimEnd(TrimStart(s))

IsBlank(s) == Trim(s) = <<>>

RECURSIVE StripZeros(_)
StripZeros(ds) ==
  IF ds # <<>> /\ DigitValue(Head(ds)) = 0 THEN StripZeros(Tail(ds)) ELSE ds

RECURSIVE DigitsGreater(_, _)
DigitsGreater(ds, ms) ==
  /\ ds # <<>>
  /\ \/ DigitValue(Head(ds)) > Head(ms)
     \/ DigitValue(Head(ds)) = Head(ms) /\ DigitsGreater(Tail(ds), Tail(ms))

\* the number does not fit a u32
Overflows(ds) ==
  LET sig == StripZeros(ds)
  IN  \/ Len(sig) > Len(U32MaxDigits)
      \/ Len(sig) = Len(U32MaxDigits) /\ DigitsGreater(sig, U32MaxDigits)

RECURSIVE DecimalValue(_)
DecimalValue(ds) ==
  IF ds = <<>> THEN 0
  ELSE DecimalValue(Sub(ds, 1, Len(ds) - 1)) * 10 + DigitValue(ds[Len(ds)])

\* str::parse::<u32> of a run of digits; -1 is the Err of an overflow
ParseU32(ds) == IF Overflows(ds) THEN -1 ELSE DecimalValue(ds)

----------------------------------------------------------------------------
(* Line classifier *)

FreqEntry(f, v) == [freq |-> f, value |-> v]

DateLine(label) == [kind |-> "Date", date |-> label]

EntryLine(e) == [kind |-> "Entry", entry |-> e]

\* ^\s*ARROW\s*(.*?)\s*$ : <<k, j, m>> = leading blanks, blanks after the
\* arrow, label length; the rest of the line is blank.
DateMatches(s) ==
  { t \in (0..Len(s)) \X (0..Len(s)) \X (0..Len(s)) :
      /\ t[1] + 1 + t[2] + t[3] <= Len(s)
      /\ AllSpace(s, 1, t[1])
      /\ s[t[1] + 1] = ARROW
      /\ AllSpace(s, t[1] + 2, t[1] + 1 + t[2])
      /\ AllSpace(s, t[1] + 2 + t[2] + t[3], Len(s)) }

\* leftmost-first choice: \s* greedy, \s* greedy, (.*?) lazy
DateBetter(a, b) ==
  \/ a[1] > b[1]
  \/ a[1] = b[1] /\ a[2] > b[2]
  \/ a[1] = b[1] /\ a[2] = b[2] /\ a[3] <= b[3]

DATE_PATTERN(s) ==
  LET ms == DateMatches(s)
  IN  IF ms = {} THEN <<>>
      ELSE LET t == CHOOSE a \in ms : \A b \in ms : DateBetter(a, b)
           IN  <<Sub(s, t[1] + 2 + t[2], t[1] + 1 + t[2] + t[3])>>

\* the group \((\d+)x\) on the r characters that end the line (r = 0: the
\* group is absent and the line ends here)
GroupAt(s, r) ==
  \/ r = 0
  \/ /\ r >= 4
     /\ s[Len(s) - r + 1] = "("
     /\ AllDigits(s, Len(s) - r + 2, Len(s) - 2)
     /\ s[Len(s) - 1] = "x"
     /\ s[Len(s)] = ")"

\* ^\s*(.+?)\s*(?:\((\d+)x\))?$ : <<k, m, j>> = leading blanks, value length,
\* blanks after the value; what is left of the line is the group.
EntryMatches(s) ==
  { t \in (0..Len(s)) \X (1..Len(s)) \X (0..Len(s)) :
      /\ t[1] + t[2] + t[3] <= Len(s)
      /\ AllSpace(s, 1, t[1])
      /\ AllSpace(s, t[1] + t[2] + 1, t[1] + t[2] + t[3])
      /\ GroupAt(s, Len(s) - (t[1] + t[2] + t[3])) }

\* leftmost-first choice: \s* greedy, (.+?) lazy, \s* greedy
EntryBetter(a, b) ==
  \/ a[1] > b[1]
  \/ a[1] = b[1] /\ a[2] < b[2]
  \/ a[1] = b[1] /\ a[2] = b[2] /\ a[3] >= b[3]

\* <<value, digits>> of the chosen match, digits = <<>> when group 2 is unset
ALBUM_ENTRY_PATTERN(s) ==
  LET ms == EntryMatches(s)
  IN  IF ms = {} THEN <<>>
      ELSE LET t == CHOOSE a \in ms : \A b \in ms : EntryBetter(a, b)
               p == t[1] + t[2] + t[3] + 1
           IN  <<Sub(s, t[1] + 1, t[1] + t[2]), Sub(s, p + 1, Len(s) - 2)>>

\* ParsedLine::from_str; "Panic" is the expect() on the frequency parse
from_str(s) ==
  LET dm == DATE_PATTERN(s)
      em == ALBUM_ENTRY_PATTERN(s)
  IN  IF dm # <<>> THEN DateLine(dm[1])
      ELSE IF em = <<>> THEN [kind |-> "Err"]
      ELSE IF em[2] = <<>> THEN EntryLine(FreqEntry(1, em[1]))
      ELSE IF ParseU32(em[2]) = -1 THEN [kind |-> "Panic"]
      ELSE EntryLine(FreqEntry(ParseU32(em[2]), em[1]))

----------------------------------------------------------------------------
(* Ranker *)

\* <String as Ord>::cmp: -1 Less, 0 Equal, 1 Greater
RECURSIVE StrCmp(_, _)
StrCmp(a, b) ==
  IF a = <<>> /\ b = <<>> THEN 0
  ELSE IF a = <<>> THEN -1
  ELSE IF b = <<>> THEN 1
  ELSE IF CharCode[Head(a)] < CharCode[Head(b)] THEN -1
  ELSE IF CharCode[Head(a)] > CharCode[Head(b)] THEN 1
  ELSE StrCmp(Tail(a), Tail(b))

\* FreqEntry::cmp without the tie-break on the value
cmpFreqOnly(a, b) ==
  IF a.freq > b.freq THEN -1
  ELSE IF a.freq < b.freq THEN 1
  ELSE 0

\* FreqEntry::cmp: Reverse(freq), then the value
cmp(a, b) ==
  IF a.freq > b.freq THEN -1
  ELSE IF a.freq < b.freq THEN 1
  ELSE StrCmp(a.value, b.value)

\* one insertion of the stable sort: e goes after the elements not greater
RECURSIVE Insert(_, _)
Insert(e, s) ==
  IF s = <<>> THEN <<e>>
  ELSE IF cmp(e, Head(s)) < 0 THEN <<e>> \o s
  ELSE <<Head(s)>> \o Insert(e, Tail(s))

\* Itertools::sorted
RECURSIVE sorted(_)
sorted(s) ==
  IF s = <<>> THEN <<>>
  ELSE Insert(s[Len(s)], sorted(Sub(s, 1, Len(s) - 1)))

\* the scan closure that keeps the first frequency as rank_freq
ScanStepStale(maybe_rank, freq_entry) ==
  IF maybe_rank # <<>>
  THEN IF freq_entry.freq # maybe_rank[2]
       THEN <<maybe_rank[1] + 1, <<maybe_rank[1] + 1, maybe_rank[2]>>>>
       ELSE <<maybe_rank[1], maybe_rank>>
  ELSE <<1, <<1, freq_entry.freq>>>>

\* the scan closure: <<entry_rank, maybe_rank'>>; maybe_rank is <<>> (None)
\* or <<rank, rank_freq>>
ScanStep(maybe_rank, freq_entry) ==
  IF maybe_rank # <<>>
  THEN IF freq_entry.freq # maybe_rank[2]
       THEN <<maybe_rank[1] + 1, <<maybe_rank[1] + 1, freq_entry.freq>>>>
       ELSE <<maybe_rank[1], maybe_rank>>
  ELSE <<1, <<1, freq_entry.freq>>>>

\* the scan's results for the first n elements: <<ranks, maybe_rank>>
RECURSIVE Scan(_, _)
Scan(s, n) ==
  IF n = 0 THEN <<<<>>, <<>>>>
  ELSE LET before == Scan(s, n - 1)
           step == ScanStep(before[2], s[n])
       IN  <<Append(before[1], step[1]), step[2]>>

RankedEntry(idx, rank, freq_entry) ==
  [idx |-> idx, rank |-> rank, freq_entry |-> freq_entry]

\* RankedEntry::from_freq_entries
from_freq_entries(freq_entries) ==
  LET s == sorted(freq_entries)
      ranks == Scan(s, Len(s))[1]
  IN  [i \in 1..Len(s) |-> RankedEntry(i - 1, ranks[i], s[i])]

----------------------------------------------------------------------------
(* Log builder *)

\* AlbumLog::new; current is <<>> (None) or <<label>> (Some)
new == [entries |-> <<>>, current |-> <<>>]

\* feed_line with insert(date, vec![entry]) in place of entry().or_default().push()
feed_line_insert(log, ln) ==
  IF ln.kind = "Date"
  THEN [log EXCEPT !.current = <<ln.date>>]
  ELSE IF log.current # <<>>
  THEN [log EXCEPT !.entries =
          [k \in DOMAIN log.entries \cup {log.current[1]} |->
             IF k = log.current[1] THEN <<ln.entry>> ELSE log.entries[k]]]
  ELSE log

\* AlbumLog::feed_line
feed_line(log, ln) ==
  IF ln.kind = "Date"
  THEN [log EXCEPT !.current = <<ln.date>>]
  ELSE IF log.current # <<>>
  THEN LET d == log.current[1]
           bucket == IF d \in DOMAIN log.entries THEN log.entries[d] ELSE <<>>
       IN  [log EXCEPT !.entries =
              [k \in DOMAIN log.entries \cup {d} |->
                 IF k = d THEN Append(bucket, ln.entry) ELSE log.entries[k]]]
  ELSE log

\* the orders in which a HashMap may iterate over the keys S
Orders(S) ==
  { f \in [1..Cardinality(S) -> S] : \A i, j \in DOMAIN f : f[i] = f[j] => i = j }

\* AlbumLog::flattened_album_entries, the buckets visited in the given order
RECURSIVE Flatten(_, _)
Flatten(m, order) ==
  IF order = <<>> THEN <<>>
  ELSE m[Head(order)] \o Flatten(m, Tail(order))

----------------------------------------------------------------------------
(* Aggregation *)

\* *map.entry(key).or_default() += freq
AddTo(m, key, freq) ==
  [k \in DOMAIN m \cup {key} |->
     (IF k \in DOMAIN m THEN m[k] ELSE 0) + (IF k = key THEN freq ELSE 0)]

\* the album fold with = in place of +=
AlbumAddAssign(acc, entry) ==
  [k \in DOMAIN acc \cup {entry.value} |->
     IF k = entry.value THEN entry.freq ELSE acc[k]]

\* the closure of the album fold in process_file
AlbumAdd(acc, entry) == AddTo(acc, entry.value, entry.freq)

RECURSIVE AlbumFold(_, _)
AlbumFold(acc, flat) ==
  IF flat = <<>> THEN acc
  ELSE AlbumFold(AlbumAdd(acc, Head(flat)), Tail(flat))

\* Counter::add
add(counter, value, freq) == AddTo(counter, value, freq)

\* Counter::to_freq_entries and the map of album_freq.into_iter(), the keys
\* visited in the given order
to_freq_entries(m, order) ==
  [i \in 1..Len(order) |-> FreqEntry(m[order[i]], order[i])]

----------------------------------------------------------------------------
(* Artist extractor *)

\* the position of the first c in s, 0 if there is none
Find(s, c) ==
  IF \E i \in 1..Len(s) : s[i] = c
  THEN CHOOSE i \in 1..Len(s) : s[i] = c /\ \A j \in 1..(i - 1) : s[j] # c
  ELSE 0

\* str::split
RECURSIVE Split(_, _)
Split(s, c) ==
  IF Find(s, c) = 0 THEN <<s>>
  ELSE <<Sub(s, 1, Find(s, c) - 1)>> \o Split(Sub(s, Find(s, c) + 1, Len(s)), c)

\* get_artists: Err(()) when split_once finds no separator
get_artists(album_entry) ==
  LET at == Find(album_entry, ENTRY_SEPARATOR)
      parts == Split(Sub(album_entry, 1, at - 1), ARTIST_JOINER)
  IN  IF at = 0 THEN [ok |-> FALSE, artists |-> <<>>]
      ELSE [ok |-> TRUE, artists |-> [i \in 1..Len(parts) |-> Trim(parts[i])]]

\* the flat_map closure of process_file: the (artist, freq) pairs of one album
Credits(ranked_entry) ==
  LET r == get_artists(ranked_entry.freq_entry.value)
  IN  IF r.ok
      THEN [i \in 1..Len(r.artists) |->
              <<r.artists[i], ranked_entry.freq_entry.freq>>]
      ELSE <<>>

RECURSIVE AllCredits(_)
AllCredits(ranked) ==
  IF ranked = <<>> THEN <<>>
  ELSE Credits(Head(ranked)) \o AllCredits(Tail(ranked))

\* the artist fold of process_file
RECURSIVE ArtistFold(_, _)
ArtistFold(acc, credits) ==
  IF credits = <<>> THEN acc
  ELSE ArtistFold(add(acc, Head(credits)[1], Head(credits)[2]), Tail(credits))

----------------------------------------------------------------------------
(* Report presenter *)

\* u32::ilog10
RECURSIVE ILog10(_)
ILog10(n) == IF n < 10 THEN 0 ELSE 1 + ILog10(n \div 10)

\* 10u32.pow
RECURSIVE Pow10(_)
Pow10(d) == IF d = 0 THEN 1 ELSE 10 * Pow10(d - 1)

\* the digits computation of print_top
PadWidth(unique) ==
  LET digits == IF unique > 0 THEN ILog10(unique) ELSE 0
  IN  IF Pow10(digits) < unique THEN digits + 1 ELSE digits

\* Display of an unsigned number: its decimal digits
RECURSIVE Decimal(_)
Decimal(n) == IF n < 10 THEN <<n>> ELSE Append(Decimal(n \div 10), n % 10)

\* {:0width$}
ZeroPad(ds, width) ==
  IF Len(ds) >= width THEN ds ELSE [i \in 1..(width - Len(ds)) |-> 0] \o ds

\* RankedEntry::to_string: the line "#<index> <rank>. <value> (x<freq>)"
to_string(e, width) ==
  [kind |-> "entry", index |-> ZeroPad(Decimal(e.idx + 1), width),
   rank |-> Decimal(e.rank), value |-> e.freq_entry.value,
   freq |-> Decimal(e.freq_entry.freq)]

RECURSIVE SumFreq(_)
SumFreq(ranked) ==
  IF ranked = <<>> THEN 0
  ELSE Head(ranked).freq_entry.freq + SumFreq(Tail(ranked))

\* to_ascii_lowercase, on the letters a response is made of
Lower(c) == IF c = "Y" THEN "y" ELSE IF c = "N" THEN "n" ELSE c

\* prompt: the Option<bool> of one response line; "None", "yes" or "no"
prompt(response) ==
  LET r == [i \in 1..Len(Trim(response)) |-> Lower(Trim(response)[i])]
  IN  IF r = <<"y">> \/ r = <<>> THEN "yes"
      ELSE IF r = <<"n">> THEN "no"
      ELSE "None"

\* the prompt loop answers: every response but the last is unrecognised
Answers(responses) ==
  /\ responses # <<>>
  /\ prompt(responses[Len(responses)]) # "None"
  /\ \A i \in 1..(Len(responses) - 1) : prompt(responses[i]) = "None"

\* a prompt whenever the cutoff is reached
PeekAtCutoff(unique, taken) == taken <= unique /\ unique > 0

\* iter.peek().is_some() once the first entries are taken
PeekIsSome(unique, taken) == taken < unique

\* print_top: what it writes, and the prompts it makes, in order.  The
\* iterator stands after the first top entries; peek() sees the next one.
print_top(ranked, cutoff, summary, responses) ==
  LET unique == Len(ranked)
      digits == PadWidth(unique)
      taken == IF cutoff < unique THEN cutoff ELSE unique
      first == [i \in 1..taken |-> to_string(ranked[i], digits)]
      sum == <<[kind |-> "summary", report |-> summary, unique |-> unique,
                total |-> SumFreq(ranked)]>>
      asked == [i \in 1..Len(responses) |->
                  [kind |-> "prompt", response |-> prompt(responses[i])]]
      rest == [i \in 1..(unique - taken) |-> to_string(ranked[taken + i], digits)]
  IN  IF PeekIsSome(unique, taken)
      THEN IF prompt(responses[Len(responses)]) = "yes"
           THEN first \o sum \o asked \o rest
           ELSE first \o sum \o asked
      ELSE first \o sum

----------------------------------------------------------------------------
(* process_file: one run over a file of up to MaxLines lines drawn from      *)
(* SampleLines, or of up to MaxDeepLines lines drawn from DeepLines          *)

MaxLines == 3

MaxDeepLines == 6

MaxResponses == 2

\* "->d", "-> e ", "a-X", "a-X (2x)"
DeepLines ==
  { <<ARROW, "d">>,
    <<ARROW, " ", "e", " ">>,
    <<"a", DASH, "X">>,
    <<"a", DASH, "X", " ", "(", "2", "x", ")">> }

\* and "a/ b-Y (2x)", "Z", "a/a-W", "  "
SampleLines ==
  DeepLines \cup
    { <<"a", "/", " ", "b", DASH, "Y", " ", "(", "2", "x", ")">>,
      <<"Z">>,
      <<"a", "/", "a", DASH, "W">>,
      <<" ", " ">> }

\* "Y ", "", "n", "x"
ResponseLines == { <<"Y", " ">>, <<>>, <<"n">>, <<"x">> }

ResponseSeqs ==
  { r \in UNION { [1..n -> ResponseLines] : n \in 1..MaxResponses } : Answers(r) }

\* line.parse() of every sample line
Classified == [raw \in SampleLines |-> from_str(raw)]

DeepClassified == { Classified[raw] : raw \in DeepLines }

\* the responses print_top reads: none unless entries are left after the
\* first cutoff ones
Responses(ranked, cutoff) ==
  IF PeekIsSome(Len(ranked), IF cutoff < Len(ranked) THEN cutoff ELSE Len(ranked))
  THEN ResponseSeqs
  ELSE {<<>>}

\* the file read so far may still grow by the line raw
MayRead(raw) ==
  \/ Len(fed) < MaxLines
  \/ /\ Len(fed) < MaxDeepLines
     /\ raw \in DeepLines
     /\ \A i \in 1..Len(fed) : fed[i] \in DeepClassified

\* process_file printing the album report before it ranks the albums
StageAfterPrintFirst(stage) ==
  CASE stage = "read" -> "album_freq"
    [] stage = "album_freq" -> "print_albums"
    [] stage = "print_albums" -> "rank_albums"
    [] stage = "rank_albums" -> "artist_counter"
    [] stage = "artist_counter" -> "rank_artists"
    [] stage = "rank_artists" -> "print_artists"
    [] stage = "print_artists" -> "done"

\* the order of the steps of process_file
StageAfter(stage) ==
  CASE stage = "read" -> "album_freq"
    [] stage = "album_freq" -> "rank_albums"
    [] stage = "rank_albums" -> "print_albums"
    [] stage = "print_albums" -> "artist_counter"
    [] stage = "artist_counter" -> "rank_artists"
    [] stage = "rank_artists" -> "print_artists"
    [] stage = "print_artists" -> "done"

\* the fold of process_file over the lines of a file
RECURSIVE FeedAll(_, _)
FeedAll(log, lines) ==
  IF lines = <<>> THEN log
  ELSE FeedAll(feed_line(log, Head(lines)), Tail(lines))

\* the album and artist totals process_file computes from the classified
\* lines of a file, every HashMap visited in one of its orders
TotalsOf(lines) ==
  LET log == FeedAll(new, lines)
      albums == AlbumFold(<<>>, Flatten(log.entries,
                  CHOOSE o \in Orders(DOMAIN log.entries) : TRUE))
      ranked == from_freq_entries(to_freq_entries(albums,
                  CHOOSE o \in Orders(DOMAIN albums) : TRUE))
  IN  [albums |-> albums, artists |-> ArtistFold(<<>>, AllCredits(ranked))]

Init ==
  /\ pc = "read"
  /\ line = <<>> /\ parsed = [kind |-> "None"]
  /\ fed = <<>>
  /\ entries = new.entries /\ current = new.current
  /\ album_freq = <<>> /\ ranked_entries = <<>>
  /\ artist_counter = <<>> /\ ranked_artists = <<>>
  /\ out = <<>> /\ freq_in = <<>> /\ top = 0

\* one step of the fold over reader.lines(): blank lines are filtered out,
\* the line is parsed (a failure panics) and fed to the log
ReadLine ==
  /\ pc = "read"
  /\ \E raw \in SampleLines :
       /\ ~IsBlank(raw)
       /\ MayRead(raw)
       /\ LET p == Classified[raw]
              log == feed_line([entries |-> entries, current |-> current], p)
          IN  IF p.kind \in {"Err", "Panic"}
              THEN /\ pc' = "panicked"
                   /\ UNCHANGED <<fed, entries, current>>
              ELSE /\ pc' = pc
                   /\ fed' = Append(fed, p)
                   /\ entries' = log.entries
                   /\ current' = log.current
  /\ UNCHANGED <<line, parsed, album_freq, ranked_entries, artist_counter,
                 ranked_artists, out, freq_in, top>>

\* the reader is exhausted: the fold returns the log
EndOfInput ==
  /\ pc = "read"
  /\ pc' = StageAfter(pc)
  /\ UNCHANGED <<line, parsed, fed, entries, current, album_freq,
                 ranked_entries, artist_counter, ranked_artists, out, freq_in,
                 top>>

\* let album_freq = log.flattened_album_entries().fold(...)
AlbumFreq ==
  /\ pc = "album_freq"
  /\ \E order \in Orders(DOMAIN entries) :
       album_freq' = AlbumFold(<<>>, Flatten(entries, order))
  /\ pc' = StageAfter(pc)
  /\ UNCHANGED <<line, parsed, fed, entries, current, ranked_entries,
                 artist_counter, ranked_artists, out, freq_in, top>>

\* let ranked_entries = RankedEntry::from_freq_entries(album_freq.into_iter()...)
RankAlbums ==
  /\ pc = "rank_albums"
  /\ \E order \in Orders(DOMAIN album_freq) :
       ranked_entries' = from_freq_entries(to_freq_entries(album_freq, order))
  /\ pc' = StageAfter(pc)
  /\ UNCHANGED <<line, parsed, fed, entries, current, album_freq,
                 artist_counter, ranked_artists, out, freq_in, top>>

\* print_top(&ranked_entries, TOP_ALBUMS, ...)
PrintAlbums ==
  /\ pc = "print_albums"
  /\ \E responses \in Responses(ranked_entries, TOP_ALBUMS) :
       out' = out \o print_top(ranked_entries, TOP_ALBUMS, "albums", responses)
  /\ pc' = StageAfter(pc)
  /\ UNCHANGED <<line, parsed, fed, entries, current, album_freq,
                 ranked_entries, artist_counter, ranked_artists, freq_in, top>>

\* let artist_counter = ranked_entries.iter().flat_map(...).fold(Counter::new(), ...)
ArtistCounter ==
  /\ pc = "artist_counter"
  /\ artist_counter' = ArtistFold(<<>>, AllCredits(ranked_entries))
  /\ pc' = StageAfter(pc)
  /\ UNCHANGED <<line, parsed, fed, entries, current, album_freq,
                 ranked_entries, ranked_artists, out, freq_in, top>>

\* let ranked_artists = RankedEntry::from_freq_entries(artist_counter.to_freq_entries())
RankArtists ==
  /\ pc = "rank_artists"
  /\ \E order \in Orders(DOMAIN artist_counter) :
       ranked_artists' = from_freq_entries(to_freq_entries(artist_counter, order))
  /\ pc' = StageAfter(pc)
  /\ UNCHANGED <<line, parsed, fed, entries, current, album_freq,
                 ranked_entries, artist_counter, out, freq_in, top>>

\* print_top(&ranked_artists, TOP_ARTISTS, ...)
PrintArtists ==
  /\ pc = "print_artists"
  /\ \E responses \in Responses(ranked_artists, TOP_ARTISTS) :
       out' = out \o print_top(ranked_artists, TOP_ARTISTS, "artists", responses)
  /\ pc' = StageAfter(pc)
  /\ UNCHANGED <<line, parsed, fed, entries, current, album_freq,
                 ranked_entries, artist_counter, ranked_artists, freq_in, top>>

Next ==
  \/ ReadLine
  \/ EndOfInput
  \/ AlbumFreq
  \/ RankAlbums
  \/ PrintAlbums
  \/ ArtistCounter
  \/ RankArtists
  \/ PrintArtists

Spec == Init /\ [][Next]_vars

----------------------------------------------------------------------------
(* Classification of one line, for every line up to MaxLineLen characters *)

MaxLineLen == 6

LineChars == {" ", "(", ")", "x", "0", "2", ARROW}

RawLines == UNION { [1..n -> LineChars] : n \in 1..MaxLineLen }

Idle ==
  /\ fed = <<>> /\ entries = <<>> /\ current = <<>> /\ album_freq = <<>>
  /\ ranked_entries = <<>> /\ artist_counter = <<>> /\ ranked_artists = <<>>
  /\ out = <<>> /\ freq_in = <<>> /\ top = 0

InitParse ==
  /\ pc = "classify"
  /\ line \in { s \in RawLines : ~IsBlank(s) }
  /\ parsed = [kind |-> "None"]
  /\ Idle

Classify ==
  /\ pc = "classify"
  /\ parsed' = from_str(line)
  /\ pc' = "classified"
  /\ UNCHANGED <<line, fed, entries, current, album_freq, ranked_entries,
                 artist_counter, ranked_artists, out, freq_in, top>>

NextParse == Classify

SpecParse == InitParse /\ [][NextParse]_vars

----------------------------------------------------------------------------
(* Ranking of every collection of up to MaxEntries frequency entries *)

MaxEntries == 3

MaxFreq == 3

RankValues == {<<"a">>, <<"a", "b">>, <<"b">>}

RankInputs ==
  UNION { [1..n -> { FreqEntry(f, v) : f \in 1..MaxFreq, v \in RankValues }] :
            n \in 0..MaxEntries }

InitRank ==
  /\ pc = "rank"
  /\ freq_in \in RankInputs
  /\ line = <<>> /\ parsed = [kind |-> "None"]
  /\ fed = <<>> /\ entries = <<>> /\ current = <<>> /\ album_freq = <<>>
  /\ ranked_entries = <<>> /\ artist_counter = <<>> /\ ranked_artists = <<>>
  /\ out = <<>> /\ top = 0

Rank ==
  /\ pc = "rank"
  /\ ranked_entries' = from_freq_entries(freq_in)
  /\ pc' = "ranked"
  /\ UNCHANGED <<line, parsed, fed, entries, current, album_freq,
                 artist_counter, ranked_artists, out, freq_in, top>>

NextRank == Rank

SpecRank == InitRank /\ [][NextRank]_vars

----------------------------------------------------------------------------
(* print_top over every ranking of up to MaxUnique entries *)

MaxUnique == 11

MaxTop == 3

Letters == <<"a", "b", "c", "d", "e", "f", "g", "h", "i", "j", "k", "l">>

\* u entries named by the letters; their frequencies are all 1, alternate
\* between 1 and 2, or are all different
PrintInput(u, pattern) ==
  [i \in 1..u |->
     FreqEntry(CASE pattern = "equal" -> 1
                 [] pattern = "alternate" -> (i % 2) + 1
                 [] pattern = "distinct" -> i,
               <<Letters[i]>>)]

InitPrint ==
  /\ pc = "print_top"
  /\ top \in (0..MaxTop) \cup {TOP_ARTISTS, TOP_ALBUMS}
  /\ \E u \in 0..MaxUnique, pattern \in {"equal", "alternate", "distinct"} :
       ranked_entries = from_freq_entries(PrintInput(u, pattern))
  /\ line = <<>> /\ parsed = [kind |-> "None"]
  /\ fed = <<>> /\ entries = <<>> /\ current = <<>> /\ album_freq = <<>>
  /\ artist_counter = <<>> /\ ranked_artists = <<>>
  /\ out = <<>> /\ freq_in = <<>>

PrintTop ==
  /\ pc = "print_top"
  /\ \E responses \in Responses(ranked_entries, top) :
       out' = print_top(ranked_entries, top, "entries", responses)
  /\ pc' = "printed"
  /\ UNCHANGED <<line, parsed, fed, entries, current, album_freq,
                 ranked_entries, artist_counter, ranked_artists, freq_in, top>>

NextPrint == PrintTop

SpecPrint == InitPrint /\ [][NextPrint]_vars

----------------------------------------------------------------------------
(* Claims about the line classifier (SpecParse) *)

\* the line is a date marker: its first non-blank character is the arrow
IsDateMarker(s) == TrimStart(s) # <<>> /\ Head(TrimStart(s)) = ARROW

\* length of the (<digits>x) suffix that ends t after a non-empty value, 0 if
\* there is none
SuffixLen(t) ==
  IF \E r \in 4..(Len(t) - 1) : GroupAt(t, r)
  THEN CHOOSE r \in 4..(Len(t) - 1) : GroupAt(t, r)
  ELSE 0

\* the entry the entry grammar \s*(.+?)\s*(\(\d+x\))?\s*$ assigns to a line
ClaimedEntry(s) ==
  LET t == Trim(s)
      r == SuffixLen(t)
  IN  IF r = 0 THEN FreqEntry(1, t)
      ELSE FreqEntry(DecimalValue(Sub(t, Len(t) - r + 2, Len(t) - 2)),
                     TrimEnd(Sub(t, 1, Len(t) - r)))

\* C7: every non-blank line that is not a date marker is classified as the
\* entry whose value is the trimmed line without its optional (<digits>x)
\* suffix and whose count is the suffix's number, or 1 without a suffix, also
\* when blanks follow the suffix.
C7_EntryValueAndCount ==
  (pc = "classified" /\ ~IsDateMarker(line))
    => parsed = EntryLine(ClaimedEntry(line))

\* the same, for the lines that have no blank after a suffix
C7_HoldsWithoutBlankAfterSuffix ==
  (pc = "classified" /\ ~IsDateMarker(line)
     /\ (SuffixLen(Trim(line)) = 0 \/ ~IsSpace(line[Len(line)])))
    => parsed = EntryLine(ClaimedEntry(line))

\* C8: every counted entry the classifier produces has a count >= 1.
C8_ClassifiedCountPositive ==
  (pc = "classified" /\ parsed.kind = "Entry") => parsed.entry.freq >= 1

----------------------------------------------------------------------------
(* Claims about process_file (Spec) *)

MaxPermLen == 4

Maximum(S) == CHOOSE m \in S : \A x \in S : x <= m

\* the current date when line i of lines is fed: <<>> before the first marker
CurrentAt(lines, i) ==
  LET markers == { j \in 1..(i - 1) : lines[j].kind = "Date" }
  IN  IF markers = {} THEN <<>> ELSE <<lines[Maximum(markers)].date>>

\* line i of lines is an entry fed under a date
Dated(lines, i) == lines[i].kind = "Entry" /\ CurrentAt(lines, i) # <<>>

\* the entries among the first n lines fed while the current date was d
RECURSIVE FedUnder(_, _, _)
FedUnder(lines, n, d) ==
  IF n = 0 THEN <<>>
  ELSE IF Dated(lines, n) /\ CurrentAt(lines, n) = <<d>>
  THEN Append(FedUnder(lines, n - 1, d), lines[n].entry)
  ELSE FedUnder(lines, n - 1, d)

\* the counts of the dated entries of value v among the first n lines, summed
RECURSIVE DatedTotal(_, _, _)
DatedTotal(lines, n, v) ==
  IF n = 0 THEN 0
  ELSE DatedTotal(lines, n - 1, v)
       + (IF Dated(lines, n) /\ lines[n].entry.value = v
          THEN lines[n].entry.freq ELSE 0)

Labels(lines) == { lines[i].date : i \in { j \in DOMAIN lines : lines[j].kind = "Date" } }

DatedValues(lines) ==
  { lines[i].entry.value : i \in { j \in DOMAIN lines : Dated(lines, j) } }

\* the artists the value v lists: the text before the first separator, split
\* on the joiner, each name trimmed
ArtistSide(v) ==
  IF Find(v, DASH) = 0 THEN <<>>
  ELSE LET parts == Split(Sub(v, 1, Find(v, DASH) - 1), "/")
       IN  [i \in 1..Len(parts) |-> Trim(parts[i])]

Lists(v, a) == \E i \in DOMAIN ArtistSide(v) : ArtistSide(v)[i] = a

RECURSIVE SetSum(_, _)
SetSum(S, m) ==
  IF S = {} THEN 0
  ELSE LET x == CHOOSE y \in S : TRUE IN m[x] + SetSum(S \ {x}, m)

AlbumsComputed ==
  pc \in {"rank_albums", "print_albums", "artist_counter", "rank_artists",
          "print_artists", "done"}

ArtistsComputed == pc \in {"rank_artists", "print_artists", "done"}

\* C1: the bucket under each date label d is exactly the in-order subsequence
\* of the entries fed while the current date was d (a label whose markers are
\* not adjacent has one bucket), and an entry fed before the first date marker
\* is in no bucket and counts in no album or artist total.
C1_BucketsFollowCurrentDate ==
  /\ DOMAIN entries \subseteq Labels(fed)
  /\ \A d \in Labels(fed) :
       IF d \in DOMAIN entries
       THEN entries[d] = FedUnder(fed, Len(fed), d)
       ELSE FedUnder(fed, Len(fed), d) = <<>>
  /\ AlbumsComputed =>
       /\ DOMAIN album_freq = DatedValues(fed)
       /\ \A v \in DOMAIN album_freq : album_freq[v] = DatedTotal(fed, Len(fed), v)
  /\ ArtistsComputed =>
       \A a \in DOMAIN artist_counter : \E v \in DatedValues(fed) : Lists(v, a)

\* a label with two markers that are not adjacent holds the entries fed under
\* both, and an entry was fed before the first marker
C1_Witness ==
  /\ pc = "done"
  /\ fed # <<>> /\ fed[1].kind = "Entry"
  /\ \E i, j, k \in DOMAIN fed :
       /\ i < j /\ j < k
       /\ fed[i].kind = "Date" /\ fed[j].kind = "Date" /\ fed[k].kind = "Date"
       /\ fed[i].date = fed[k].date /\ fed[j].date # fed[i].date
       /\ fed[i + 1].kind = "Entry"
       /\ k < Len(fed)
       /\ Len(entries[fed[i].date]) = 2

\* C4: each artist's total is the sum, over the distinct albums whose artist
\* side lists the artist, of the album's total; an album without a separator
\* credits nobody.
C4_ArtistCreditIsAlbumTotal ==
  ArtistsComputed =>
    /\ DOMAIN artist_counter =
         UNION { { ArtistSide(v)[i] : i \in DOMAIN ArtistSide(v) } :
                   v \in DOMAIN album_freq }
    /\ \A a \in DOMAIN artist_counter :
         artist_counter[a] =
           SetSum({ v \in DOMAIN album_freq : Lists(v, a) }, album_freq)

\* the same with an album counted once for each time it lists the artist
C4_CreditPerListing ==
  ArtistsComputed =>
    \A a \in DOMAIN artist_counter :
      artist_counter[a] =
        SetSum({ v \in DOMAIN album_freq : Lists(v, a) },
               [v \in DOMAIN album_freq |->
                  album_freq[v]
                    * Cardinality({ i \in DOMAIN ArtistSide(v) : ArtistSide(v)[i] = a })])

IndexPerms(n) ==
  { f \in [1..n -> 1..n] : \A i, j \in 1..n : f[i] = f[j] => i = j }

Permuted(lines, p) == [i \in DOMAIN lines |-> lines[p[i]]]

\* the permutation p keeps every entry under the date it was fed under
KeepsDates(lines, p) ==
  \A i \in DOMAIN lines :
    lines[p[i]].kind = "Entry" =>
      CurrentAt(Permuted(lines, p), i) = CurrentAt(lines, p[i])

\* C5: two files that are permutations of each other and keep every entry
\* under the same date label have the same album totals and the same artist
\* totals (files of up to MaxPermLen lines).
C5_TotalsIgnoreOrder ==
  (pc = "done" /\ Len(fed) <= MaxPermLen) =>
    \A p \in IndexPerms(Len(fed)) :
      KeepsDates(fed, p) =>
        TotalsOf(Permuted(fed, p)) = [albums |-> album_freq, artists |-> artist_counter]

\* a file with a different order of its lines, two of them counting for the
\* same album with different counts
C5_Witness ==
  /\ pc = "done" /\ Len(fed) <= MaxPermLen
  /\ \E p \in IndexPerms(Len(fed)) :
       KeepsDates(fed, p) /\ Permuted(fed, p) # fed
  /\ \E i, j \in DOMAIN fed :
       /\ Dated(fed, i) /\ Dated(fed, j)
       /\ fed[i].entry.value = fed[j].entry.value
       /\ fed[i].entry.freq # fed[j].entry.freq
  /\ artist_counter # <<>>

Printed(report) ==
  \E i \in DOMAIN out : out[i].kind = "summary" /\ out[i].report = report

\* C10: the whole input is read and folded into the log before any ranking
\* begins, and the rankings of the albums and of the artists are both
\* computed before any report line is printed.
C10_RankedBeforeAnyOutput ==
  /\ pc = "read" => (ranked_entries = <<>> /\ ranked_artists = <<>> /\ out = <<>>)
  /\ out # <<>> => pc \in {"print_artists", "done"}

\* C10, amended: the whole input is read and folded into the log before any
\* ranking begins, and the ranking of a report is computed in full before any
\* line of that report is printed.
C10_RankedBeforeItsReport ==
  /\ pc = "read" =>
       /\ album_freq = <<>> /\ ranked_entries = <<>>
       /\ artist_counter = <<>> /\ ranked_artists = <<>>
       /\ out = <<>>
  /\ Printed("albums") =>
       /\ pc \in {"artist_counter", "rank_artists", "print_artists", "done"}
       /\ DOMAIN album_freq = DatedValues(fed)
       /\ Len(ranked_entries) = Cardinality(DOMAIN album_freq)
  /\ Printed("artists") =>
       /\ pc = "done"
       /\ Len(ranked_artists) = Cardinality(DOMAIN artist_counter)

\* the album report is printed and the artists are not ranked yet
C10_Witness ==
  /\ pc = "rank_artists"
  /\ \E i \in DOMAIN out : out[i].kind = "entry"
  /\ artist_counter # <<>> /\ ranked_artists = <<>>

----------------------------------------------------------------------------
(* Claims about the ranker (SpecRank) *)

\* C2: the first ranked entry has rank 1, and every later entry has the rank
\* of the entry before it if and only if it has the same frequency, and that
\* rank plus one otherwise.
C2_RanksFollowFrequencies ==
  pc = "ranked" =>
    /\ ranked_entries # <<>> => ranked_entries[1].rank = 1
    /\ \A i \in 2..Len(ranked_entries) :
         LET e == ranked_entries[i]
             before == ranked_entries[i - 1]
         IN  /\ (e.rank = before.rank) <=> (e.freq_entry.freq = before.freq_entry.freq)
             /\ e.freq_entry.freq # before.freq_entry.freq => e.rank = before.rank + 1

\* a ranking with a tie after a change of frequency
C2_Witness ==
  /\ pc = "ranked"
  /\ Len(ranked_entries) >= 3
  /\ ranked_entries[2].rank = 2
  /\ ranked_entries[3].rank = 2

\* a <= b in the lexical order of the code points
ValueLeq(a, b) ==
  \/ /\ Len(a) <= Len(b)
     /\ \A i \in 1..Len(a) : a[i] = b[i]
  \/ \E i \in 1..Len(a) :
       /\ i <= Len(b)
       /\ \A j \in 1..(i - 1) : a[j] = b[j]
       /\ CharCode[a[i]] < CharCode[b[i]]

Occurrences(s, x) == Cardinality({ i \in DOMAIN s : s[i] = x })

\* C3: the ranked sequence is a permutation of the input that does not depend
\* on the input's order, in descending frequency, entries of equal frequency
\* in ascending order of value, each idx being the position counted from 0.
C3_SortedPermutation ==
  pc = "ranked" =>
    /\ Len(ranked_entries) = Len(freq_in)
    /\ \A i \in DOMAIN freq_in :
         Occurrences(freq_in, freq_in[i])
           = Occurrences([j \in DOMAIN ranked_entries |-> ranked_entries[j].freq_entry],
                         freq_in[i])
    /\ \A p \in IndexPerms(Len(freq_in)) :
         from_freq_entries(Permuted(freq_in, p)) = ranked_entries
    /\ \A i \in DOMAIN ranked_entries : ranked_entries[i].idx = i - 1
    /\ \A i \in 2..Len(ranked_entries) :
         LET e == ranked_entries[i].freq_entry
             before == ranked_entries[i - 1].freq_entry
         IN  \/ before.freq > e.freq
             \/ before.freq = e.freq /\ ValueLeq(before.value, e.value)

\* an input out of order, with two values of the same frequency
C3_Witness ==
  /\ pc = "ranked"
  /\ Len(freq_in) >= 3
  /\ freq_in[1].freq < freq_in[2].freq
  /\ freq_in[2].freq = freq_in[3].freq
  /\ StrCmp(freq_in[2].value, freq_in[3].value) > 0

----------------------------------------------------------------------------
(* Claims about print_top (SpecPrint) *)

Cutoff == IF top < Len(ranked_entries) THEN top ELSE Len(ranked_entries)

Prompts == { i \in DOMAIN out : out[i].kind = "prompt" }

\* C6: a continuation decision is requested if and only if U > N, and only
\* after the first min(U, N) entries and the summary line are printed; when
\* U <= N nothing is asked and all U entries are printed on the first pass.
C6_PromptOnlyPastCutoff ==
  pc = "printed" =>
    /\ Prompts # {} <=> Len(ranked_entries) > top
    /\ Len(out) >= Cutoff + 1
    /\ \A i \in 1..Cutoff :
         /\ out[i].kind = "entry"
         /\ out[i].value = ranked_entries[i].freq_entry.value
    /\ out[Cutoff + 1].kind = "summary"
    /\ \A i \in Prompts : i > Cutoff + 1
    /\ Len(ranked_entries) <= top => Len(out) = Len(ranked_entries) + 1

\* more entries than the cutoff: asked twice, then the rest is printed
C6_Witness ==
  /\ pc = "printed"
  /\ top >= 1 /\ Len(ranked_entries) > top
  /\ Cardinality(Prompts) = 2
  /\ out[Len(out)].kind = "entry"

RECURSIVE DigitCount(_)
DigitCount(n) == IF n < 10 THEN 1 ELSE 1 + DigitCount(n \div 10)

\* C9: the index field of every printed entry is zero-padded to the number of
\* decimal digits of the number U of ranked entries.
C9_IndexPaddedToDigitsOfU ==
  pc = "printed" =>
    \A i \in DOMAIN out :
      out[i].kind = "entry" => Len(out[i].index) = DigitCount(Len(ranked_entries))

====
